---- MODULE Spec2Model ----
(***************************************************************************)
(* Model of boat_power_calculator.py, a Streamlit script.  Streamlit runs  *)
(* the whole script from top to bottom once for every user interaction.    *)
(* State that survives between runs is st.session_state, the values held   *)
(* by the widgets, and the value returned by the map component.  One       *)
(* action of the model is one interaction together with the script run(s)  *)
(* it triggers.                                                            *)
(*                                                                         *)
(* Numbers.  The script computes with Python floats.  The model computes   *)
(* with exact rationals <<n, d>> (d > 0, lowest terms); float rounding is  *)
(* not modelled.  Two values with denominator 0 stand for outcomes that    *)
(* are not finite numbers: Infinity (float('inf')) and ZeroDivisionError   *)
(* (the exception Python raises on float / 0).                             *)
(***************************************************************************)
EXTENDS Integers, Sequences, FiniteSets, TLC

VARIABLES
    keys,                   \* the keys present in st.session_state
    authentication_status,  \* TRUE for True, FALSE for None
    username,               \* st.session_state.username ("" when absent)
    user_data,              \* st.session_state.user_data (NoUser when absent)
    devices,                \* st.session_state.devices
    start_location,         \* st.session_state.start_location
    end_location,           \* st.session_state.end_location
    last_clicked,           \* output['last_clicked'] of the st_folium component
    params,                 \* the values held by the input widgets
    results,                \* what the last script run computed and rendered
    event,                  \* history: the interaction that caused the last run
    before,                 \* history: the device list before the last interaction
    base                    \* history: <<L>> after "add d to L, then remove d's name"

vars == <<keys, authentication_status, username, user_data, devices,
          start_location, end_location, last_clicked, params, results,
          event, before, base>>

-----------------------------------------------------------------------------
(* Bounds of the model *)

\* longest device list explored by Spec
MaxSessionDevices == 1
\* longest device list explored by SpecDevices
MaxDevices == 3
\* longest device list explored by SpecCompute
MaxDevicesCompute == 1

\* inputs tried for the login form
Usernames == {"johndoe", "mallory"}
Passwords == {"12345", "67890"}

\* inputs tried for the Add Device form
DeviceNames == {"Fridge", "Radio"}
DevicePowers == {100, 200}
ComputeDeviceNames == {"Heater"}
ComputeDevicePowers == {1000}

\* map points the user may click, as <<lat, lng>>; their pairwise distances
\* are whole numbers
MapPoints == {<<0, 0>>, <<3, 4>>}

-----------------------------------------------------------------------------
(* Exact rational arithmetic *)

Abs(x) == IF x < 0 THEN -x ELSE x

RECURSIVE GCD(_, _)
GCD(a, b) == IF b = 0 THEN a ELSE GCD(b, a % b)

Norm(n, d) ==
    LET g == GCD(Abs(n), Abs(d))
        s == IF d < 0 THEN -1 ELSE 1
    IN <<(s * n) \div g, (s * d) \div g>>

R(i) == <<i, 1>>
Zero == <<0, 1>>
Infinity == <<1, 0>>
ZeroDivisionError == <<0, 0>>

Add(a, b) == Norm(a[1] * b[2] + b[1] * a[2], a[2] * b[2])
Sub(a, b) == Norm(a[1] * b[2] - b[1] * a[2], a[2] * b[2])
Mul(a, b) == Norm(a[1] * b[1], a[2] * b[2])
\* Python's a / b on floats: raises ZeroDivisionError when b is zero
Div(a, b) == IF b[1] = 0 THEN ZeroDivisionError ELSE Norm(a[1] * b[2], a[2] * b[1])
Less(a, b) == a[1] * b[2] < b[1] * a[2]
LessEq(a, b) == a[1] * b[2] <= b[1] * a[2]

-----------------------------------------------------------------------------
(* Authentication *)

users == [
    johndoe |-> [name |-> "John Doe", password |-> "12345",
                 email |-> "john@example.com", phone |-> "123-456-7890"],
    janedoe |-> [name |-> "Jane Doe", password |-> "67890",
                 email |-> "jane@example.com", phone |-> "987-654-3210"]]

\* Python's None where a user record is expected
NoUser == [name |-> "", password |-> "", email |-> "", phone |-> ""]

authenticate_any_password(u, p) ==
    IF u \in DOMAIN users THEN users[u] ELSE NoUser

authenticate(u, p) ==
    IF u \in DOMAIN users /\ users[u].password = p THEN users[u] ELSE NoUser

-----------------------------------------------------------------------------
(* Widgets *)

\* the values the widgets hold when they are first rendered
DefaultParams == [
    speed |-> 10, weight |-> 10, duration |-> 1,
    boat_type |-> "Sailboat", engine_type |-> "Electric",
    battery_capacity |-> R(50), solar_power |-> R(1),
    battery_type |-> "Lead-Acid",
    wind_speed |-> 10, wave_height |-> 1,
    electricity_price |-> <<3, 25>>, diesel_price |-> <<6, 5>>,
    gasoline_price |-> R(1)]

\* slider ranges
SpeedRange == 0..50
WeightRange == 0..100
WindRange == 0..100
WaveRange == 0..10

\* widget values tried by Spec
SessionChoices == [duration |-> {0, 1}]

\* widget values tried by SpecPower
PowerChoices == [
    speed |-> {0, 1, 10, 25, 50},
    weight |-> {0, 10, 100},
    wind_speed |-> {0, 10, 100},
    wave_height |-> {0, 1, 10}]

\* widget values tried by SpecCompute
ComputeChoices == [
    speed |-> {0, 10},
    duration |-> {0, 1, 4},
    engine_type |-> {"Electric", "Diesel", "Gasoline"},
    battery_capacity |-> {R(50), R(80)},
    solar_power |-> {Zero, R(1)},
    battery_type |-> {"Lead-Acid", "Lithium-Ion", "Nickel-Metal Hydride"},
    electricity_price |-> {<<3, 25>>, <<1, 4>>},
    diesel_price |-> {<<6, 5>>, R(2)},
    gasoline_price |-> {R(1), R(3)}]

-----------------------------------------------------------------------------
(* Tab 2: the route *)

None == <<>>

Square(x) == x * x

\* ((lat1 - lat2)**2 + (lng1 - lng2)**2)**0.5, exact on MapPoints
Distance(a, b) ==
    LET sq == Square(a[1] - b[1]) + Square(a[2] - b[2])
    IN CHOOSE r \in 0..sq : r * r = sq

\* "Save start and end locations on map click"
SaveClick(s, e, click) ==
    IF click # None
    THEN IF s = None THEN <<click, e>>
         ELSE IF e = None THEN <<s, click>>
         ELSE <<s, e>>
    ELSE <<s, e>>

-----------------------------------------------------------------------------
(* Tab 3: the device list *)

AppendDevice(devs, name, pw) == Append(devs, [name |-> name, power |-> pw])

RECURSIVE RemoveFirstNamed(_, _)
RemoveFirstNamed(devs, n) ==
    IF devs = <<>> THEN <<>>
    ELSE IF Head(devs).name = n THEN Tail(devs)
    ELSE <<Head(devs)>> \o RemoveFirstNamed(Tail(devs), n)

RemoveAtFront(devs, n) == Tail(devs)

\* [d for d in devices if d['name'] != device_to_remove]
RECURSIVE RemoveNamed(_, _)
RemoveNamed(devs, n) ==
    IF devs = <<>> THEN <<>>
    ELSE IF Head(devs).name # n
         THEN <<Head(devs)>> \o RemoveNamed(Tail(devs), n)
         ELSE RemoveNamed(Tail(devs), n)

\* device_df['name'], the options of the Remove Device selectbox
NamesOf(devs) == {devs[i].name : i \in 1..Len(devs)}

-----------------------------------------------------------------------------
(* Tab 4: the results *)

efficiency_factor == <<17, 20>>

resistance_factor_minus(wind_speed, wave_height) ==
    Sub(Add(R(1), Mul(R(wind_speed), <<1, 100>>)), Mul(R(wave_height), <<1, 10>>))

resistance_factor(wind_speed, wave_height) ==
    Add(Add(R(1), Mul(R(wind_speed), <<1, 100>>)), Mul(R(wave_height), <<1, 10>>))

power(speed, weight, wind_speed, wave_height) ==
    Div(Mul(Mul(R(speed * weight), <<1, 10>>),
            resistance_factor(wind_speed, wave_height)),
        efficiency_factor)

RECURSIVE SumPower(_)
SumPower(devs) == IF devs = <<>> THEN 0 ELSE Head(devs).power + SumPower(Tail(devs))

total_device_power(devs, duration) ==
    Div(Mul(R(SumPower(devs)), R(duration)), R(1000))

battery_types == [x \in {"Lead-Acid", "Lithium-Ion", "Nickel-Metal Hydride"} |->
    CASE x = "Lead-Acid" -> 50
      [] x = "Lithium-Ion" -> 100
      [] x = "Nickel-Metal Hydride" -> 70]

battery_life_hours_geq(capacity, net_power_usage) ==
    IF LessEq(Zero, net_power_usage) THEN Div(R(capacity), net_power_usage)
    ELSE Infinity

battery_life_hours(capacity, net_power_usage) ==
    IF Less(Zero, net_power_usage) THEN Div(R(capacity), net_power_usage)
    ELSE Infinity

fuel_price_swapped(p) ==
    CASE p.engine_type = "Electric" -> p.electricity_price
      [] p.engine_type = "Diesel" -> p.gasoline_price
      [] p.engine_type = "Gasoline" -> p.diesel_price

fuel_price(p) ==
    CASE p.engine_type = "Electric" -> p.electricity_price
      [] p.engine_type = "Diesel" -> p.diesel_price
      [] p.engine_type = "Gasoline" -> p.gasoline_price

\* np.arange(0, int(duration) + 1)
time(duration) == [i \in 1..(duration + 1) |-> i - 1]

TimeSeries_short(net_power_usage, solar_power, duration) ==
    LET rate == Div(net_power_usage, R(duration))
    IN IF rate = ZeroDivisionError THEN <<>>
       ELSE [i \in 1..duration |->
                [time |-> i - 1,
                 usage |-> Mul(rate, R(i - 1)),
                 solar |-> Mul(solar_power, R(i - 1))]]

\* the DataFrame df; empty when the division raises
TimeSeries(net_power_usage, solar_power, duration) ==
    LET rate == Div(net_power_usage, R(duration))
    IN IF rate = ZeroDivisionError THEN <<>>
       ELSE [i \in 1..Len(time(duration)) |->
                [time |-> time(duration)[i],
                 usage |-> Mul(rate, R(time(duration)[i])),
                 solar |-> Mul(solar_power, R(time(duration)[i]))]]

NotRendered == [
    rendered |-> FALSE, distance |-> None,
    power |-> Zero, total_power |-> Zero, total_device_power |-> Zero,
    solar_contribution |-> Zero, net_power_usage |-> Zero,
    battery_life_hours |-> Zero, warning |-> FALSE, total_cost |-> Zero,
    error |-> "", df |-> <<>>, distribution |-> <<>>]

\* one pass through tab 4, for widget values p, device list devs and the
\* distance tab 2 computed (<<>> when it computed none)
Results(p, devs, dist) ==
    LET pw == power(p.speed, p.weight, p.wind_speed, p.wave_height)
        tp == Mul(pw, R(p.duration))
        tdp == total_device_power(devs, p.duration)
        sc == Mul(p.solar_power, R(p.duration))
        net == Sub(Add(tp, tdp), sc)
        cap == battery_types[p.battery_type]
        raised == Div(net, R(p.duration)) = ZeroDivisionError
    IN [rendered |-> TRUE,
        distance |-> dist,
        power |-> pw,
        total_power |-> tp,
        total_device_power |-> tdp,
        solar_contribution |-> sc,
        net_power_usage |-> net,
        battery_life_hours |-> battery_life_hours(cap, net),
        warning |-> Less(Add(R(cap), sc), tdp),
        total_cost |-> Mul(net, fuel_price(p)),
        error |-> IF raised THEN "ZeroDivisionError" ELSE "",
        df |-> TimeSeries(net, p.solar_power, p.duration),
        distribution |-> IF raised \/ devs = <<>> THEN <<>> ELSE <<tp, tdp, sc>>]

-----------------------------------------------------------------------------------------------------------------------------------------------------
(* The part of the script under "if st.session_state.authentication_status" *)

SectionKeys == {"devices", "start_location", "end_location"}

\* tab 2 computes distance only when both locations are set as it is reached
RouteDistance(s, e) == IF s # None /\ e # None THEN <<Distance(s, e)>> ELSE None

\* One run of the section with no button pressed, for device list devs,
\* widget values p and map output click: tab 2 saves the click, tab 4 computes
\* the results.
Section(devs, click, p) ==
    /\ start_location' = SaveClick(start_location, end_location, click)[1]
    /\ end_location' = SaveClick(start_location, end_location, click)[2]
    /\ results' = Results(p, devs, RouteDistance(start_location, end_location))

\* The same after st.experimental_rerun(): the run that was cut short had
\* already passed tab 2 and saved the click, and the second run passes tab 2
\* again.
SectionRerun(devs, click, p) ==
    LET loc == SaveClick(start_location, end_location, click)
    IN /\ start_location' = SaveClick(loc[1], loc[2], click)[1]
       /\ end_location' = SaveClick(loc[1], loc[2], click)[2]
       /\ results' = Results(p, devs, RouteDistance(loc[1], loc[2]))

NoEvent == [kind |-> "start", name |-> "", password |-> "", power |-> 0]
\* base is <<>> or <<L>> for a device list L
NoBase == <<>>

Init ==
    /\ keys = {"authentication_status"}
    /\ authentication_status = FALSE
    /\ username = ""
    /\ user_data = NoUser
    /\ devices = <<>>
    /\ start_location = None
    /\ end_location = None
    /\ last_clicked = None
    /\ params = DefaultParams
    /\ results = NotRendered
    /\ event = NoEvent
    /\ before = <<>>
    /\ base = NoBase

-----------------------------------------------------------------------------
(* The interactions *)

LoginEvent(u, p) == [kind |-> "login", name |-> u, password |-> p, power |-> 0]
AddEvent(n, pw) == [kind |-> "add", name |-> n, password |-> "", power |-> pw]
RemoveEvent(n) == [kind |-> "remove", name |-> n, password |-> "", power |-> 0]
OtherEvent(k) == [kind |-> k, name |-> "", password |-> "", power |-> 0]

\* The Login button, with u and p typed into the form.  On success the same
\* run goes on into the authenticated section.
Login(u, p) ==
    /\ ~authentication_status
    /\ IF authenticate(u, p) # NoUser
       THEN /\ authentication_status' = TRUE
            /\ username' = u
            /\ user_data' = authenticate(u, p)
            /\ keys' = keys \cup {"username", "user_data"} \cup SectionKeys
            /\ Section(devices, last_clicked, params)
       ELSE /\ UNCHANGED <<authentication_status, username, user_data, keys,
                           start_location, end_location>>
            /\ results' = NotRendered
    /\ event' = LoginEvent(u, p)
    /\ before' = devices
    /\ base' = NoBase
    /\ UNCHANGED <<devices, last_clicked, params>>

\* The Logout button.  The authenticated section is skipped in this run, so
\* its widgets and the map component are dropped and start afresh when they
\* are next rendered.
Logout ==
    /\ authentication_status
    /\ authentication_status' = FALSE
    /\ user_data' = NoUser
    /\ username' = ""
    /\ keys' = keys \ {"user_data", "username"}
    /\ results' = NotRendered
    /\ params' = DefaultParams
    /\ last_clicked' = None
    /\ event' = OtherEvent("logout")
    /\ before' = devices
    /\ base' = NoBase
    /\ UNCHANGED <<devices, start_location, end_location>>

\* A widget of tab 1 or tab 4 is set to a new value: one run, no button.
SetWidget(choices) ==
    /\ authentication_status
    /\ \E f \in DOMAIN choices : \E v \in choices[f] :
          /\ params[f] # v
          /\ params' = [params EXCEPT ![f] = v]
    /\ Section(devices, last_clicked, params')
    /\ event' = OtherEvent("widget")
    /\ before' = devices
    /\ base' = NoBase
    /\ UNCHANGED <<keys, authentication_status, username, user_data, devices,
                   last_clicked>>

\* A click on the map at pt: one run, in which st_folium returns pt.
MapClick(pt) ==
    /\ authentication_status
    /\ last_clicked' = pt
    /\ Section(devices, pt, params)
    /\ event' = OtherEvent("click")
    /\ before' = devices
    /\ base' = NoBase
    /\ UNCHANGED <<keys, authentication_status, username, user_data, devices,
                   params>>

\* The Add Device button with name n and power pw in the form.  The run
\* passes tab 2, appends, and st.experimental_rerun() starts a second run.
AddDevice(n, pw, max) ==
    /\ authentication_status
    /\ Len(devices) < max
    /\ devices' = AppendDevice(devices, n, pw)
    /\ SectionRerun(devices', last_clicked, params)
    /\ event' = AddEvent(n, pw)
    /\ before' = devices
    /\ base' = NoBase
    /\ UNCHANGED <<keys, authentication_status, username, user_data,
                   last_clicked, params>>

\* The Remove Device button with n chosen in the selectbox.  base records
\* the list as it was before the add when this removal directly follows the
\* add of a device named n.
RemoveDevice(n) ==
    /\ authentication_status
    /\ devices # <<>>
    /\ n \in NamesOf(devices)
    /\ devices' = RemoveNamed(devices, n)
    /\ SectionRerun(devices', last_clicked, params)
    /\ event' = RemoveEvent(n)
    /\ before' = devices
    /\ base' = IF event.kind = "add" /\ event.name = n THEN <<before>> ELSE NoBase
    /\ UNCHANGED <<keys, authentication_status, username, user_data,
                   last_clicked, params>>

\* The Update Profile button of tab 7 with a new password in the form.  Tab 7
\* comes after tab 4, so it is reached only when the division does not raise.
\* The users table is rebuilt at the top of every run, so the assignment to
\* users[...] does not outlive the run.
UpdateProfile(p) ==
    /\ authentication_status
    /\ results.error = ""
    /\ Section(devices, last_clicked, params)
    /\ user_data' = [user_data EXCEPT !.password = p]
    /\ event' = OtherEvent("profile")
    /\ before' = devices
    /\ base' = NoBase
    /\ UNCHANGED <<keys, authentication_status, username, devices,
                   last_clicked, params>>

\* the state after johndoe has logged in: what Login("johndoe", "12345") makes
\* of Init
LoggedIn ==
    /\ keys = {"authentication_status", "username", "user_data"} \cup SectionKeys
    /\ authentication_status = TRUE
    /\ username = "johndoe"
    /\ user_data = users["johndoe"]
    /\ devices = <<>>
    /\ start_location = None
    /\ end_location = None
    /\ last_clicked = None
    /\ params = DefaultParams
    /\ results = Results(DefaultParams, <<>>, None)
    /\ event = LoginEvent("johndoe", "12345")
    /\ before = <<>>
    /\ base = NoBase

-----------------------------------------------------------------------------
(* Spec: the whole session *)

Next ==
    \/ \E u \in Usernames, p \in Passwords : Login(u, p)
    \/ Logout
    \/ SetWidget(SessionChoices)
    \/ \E pt \in MapPoints : MapClick(pt)
    \/ \E n \in DeviceNames, pw \in DevicePowers : AddDevice(n, pw, MaxSessionDevices)
    \/ \E n \in DeviceNames : RemoveDevice(n)
    \/ \E p \in Passwords : UpdateProfile(p)

Spec == Init /\ [][Next]_vars

(* SpecDevices: the device list of a logged-in user *)

NextDevices ==
    \/ \E n \in DeviceNames, pw \in DevicePowers : AddDevice(n, pw, MaxDevices)
    \/ \E n \in DeviceNames : RemoveDevice(n)
    \/ SetWidget(SessionChoices)

SpecDevices == LoggedIn /\ [][NextDevices]_vars

(* SpecCompute: the results of a logged-in user over the widget values *)

NextCompute ==
    \/ SetWidget(ComputeChoices)
    \/ \E n \in ComputeDeviceNames, pw \in ComputeDevicePowers :
          AddDevice(n, pw, MaxDevicesCompute)
    \/ \E n \in ComputeDeviceNames : RemoveDevice(n)

SpecCompute == LoggedIn /\ [][NextCompute]_vars

(* SpecPower: the propulsion power over the four sliders it depends on *)

NextPower == SetWidget(PowerChoices)

SpecPower == LoggedIn /\ [][NextPower]_vars

-----------------------------------------------------------------------------
(* Properties *)

IsNumber(a) == a[2] > 0

Count(devs, d) == Cardinality({i \in 1..Len(devs) : devs[i] = d})
CountNamed(devs, n) == Cardinality({i \in 1..Len(devs) : devs[i].name = n})
Entries(devs) == {devs[i] : i \in 1..Len(devs)}

\* equal as unordered collections
SameBag(a, b) ==
    \A d \in Entries(a) \cup Entries(b) : Count(a, d) = Count(b, d)

\* the device-energy figure of the distribution breakdown, when it is shown
DeviceFigure(r) == IF r.distribution = <<>> THEN <<>> ELSE <<r.distribution[2]>>

Restored ==
    /\ SameBag(devices, base[1])
    /\ DeviceFigure(results) = DeviceFigure(Results(params, base[1], results.distance))

\* C1: with duration = 0 the Results computation raises no division error and
\* the time series is the single point (0, 0, 0).
C1_ZeroDurationSinglePoint ==
    (results.rendered /\ params.duration = 0) =>
        /\ results.error = ""
        /\ results.df = <<[time |-> 0, usage |-> Zero, solar |-> Zero]>>

\* C2 as stated: for every device list L and device d, whatever d's name, Add
\* Device d followed by Remove Device of d's name leaves a list equal to L as
\* an unordered collection, with the same device-energy figure.
C2_AddThenRemoveRestoresAnyName ==
    base # NoBase => Restored

\* C2 amended: the same, for a device d whose name is not already in L.
C2_AddThenRemoveRestoresFreshName ==
    (base # NoBase /\ event.name \notin NamesOf(base[1])) => Restored

C2_Witness ==
    /\ base # NoBase
    /\ event.kind = "remove"
    /\ event.name \notin NamesOf(base[1])
    /\ Len(base[1]) = 2
    /\ results.distribution # <<>>

\* C3: no two entries of the device list have the same name, and after an add
\* exactly one entry has the added name, carrying the power of that add.
C3_UniqueNamesLastAddWins ==
    /\ \A i, j \in 1..Len(devices) : devices[i].name = devices[j].name => i = j
    /\ event.kind = "add" =>
          /\ CountNamed(devices, event.name) = 1
          /\ [name |-> event.name, power |-> event.power] \in Entries(devices)

\* C4: right after Remove Device of name n, no entry is named n, and the
\* entries with other names are all still there, powers and order unchanged.
C4_RemoveRemovesEveryMatch ==
    event.kind = "remove" =>
        /\ \A i \in 1..Len(devices) : devices[i].name # event.name
        /\ devices = SelectSeq(before, LAMBDA d : d.name # event.name)

C4_Witness ==
    /\ event.kind = "remove"
    /\ CountNamed(before, event.name) = 2
    /\ Len(devices) = 1

\* C5: when a route distance is present and speed > 0, the duration used for
\* propulsion energy, device energy, solar contribution and the time series
\* is distance / speed; otherwise it is the duration input.
C5_RouteOverridesDuration ==
    results.rendered =>
        LET used == IF results.distance # None /\ params.speed > 0
                    THEN Div(R(results.distance[1]), R(params.speed))
                    ELSE R(params.duration)
        IN /\ results.total_power = Mul(results.power, used)
           /\ results.total_device_power = Div(Mul(R(SumPower(devices)), used), R(1000))
           /\ results.solar_contribution = Mul(params.solar_power, used)
           /\ results.error = "" => R(results.df[Len(results.df)].time) = used

\* net energy times 17000 times the denominator of solar_power, as an integer:
\* propulsion + devices - solar, each over the duration
NetScaled(p, devs) ==
    p.solar_power[2] * p.duration *
        (20 * p.speed * p.weight * (100 + p.wind_speed + 10 * p.wave_height)
         + 17 * SumPower(devs))
    - 17000 * p.solar_power[1] * p.duration

C7_PowerMonotone ==
    results.rendered =>
        LET s == params.speed
            w == params.weight
            wi == params.wind_speed
            wa == params.wave_height
        IN /\ results.power[1] * 850 = s * w * (100 + wi + 10 * wa) * results.power[2]
           /\ IsNumber(results.power)
           /\ LessEq(Zero, results.power)
           /\ \A x \in SpeedRange : x >= s => LessEq(results.power, power(x, w, wi, wa))
           /\ \A x \in WeightRange : x >= w => LessEq(results.power, power(s, x, wi, wa))
           /\ \A x \in WindRange : x >= wi => LessEq(results.power, power(s, w, x, wa))
           /\ \A x \in WaveRange : x >= wa => LessEq(results.power, power(s, w, wi, x))

C7_Witness ==
    /\ results.rendered
    /\ event.kind = "widget"
    /\ params.speed = 25
    /\ params.weight = 10
    /\ params.wind_speed = 10
    /\ params.wave_height = 1

\* C8: total_cost is net energy times the price entered for the selected
\* engine type, and changing the prices of the other two engine types changes
\* no output.
C8_CostUsesSelectedPrice ==
    results.rendered =>
        LET e == params.engine_type
            selected == IF e = "Electric" THEN params.electricity_price
                        ELSE IF e = "Diesel" THEN params.diesel_price
                        ELSE params.gasoline_price
        IN /\ results.total_cost = Mul(results.net_power_usage, selected)
           /\ \A ep \in ComputeChoices.electricity_price,
                 dp \in ComputeChoices.diesel_price,
                 gp \in ComputeChoices.gasoline_price :
                 LET other == [params EXCEPT
                                  !.electricity_price = IF e = "Electric" THEN @ ELSE ep,
                                  !.diesel_price = IF e = "Diesel" THEN @ ELSE dp,
                                  !.gasoline_price = IF e = "Gasoline" THEN @ ELSE gp]
                 IN Results(other, devices, results.distance) = results

C8_Witness ==
    /\ results.rendered
    /\ params.engine_type = "Diesel"
    /\ params.diesel_price = R(2)
    /\ params.gasoline_price = R(3)
    /\ Less(Zero, results.net_power_usage)
    /\ results.total_cost = Mul(results.net_power_usage, R(2))

\* C9: for duration >= 1 the time series has duration + 1 points at hours 0,
\* 1, ..., duration, with usage (net / duration) * t and solar solar_power * t;
\* the first point is (0, 0, 0) and the last carries net energy and the solar
\* contribution.
C9_TimeSeries ==
    (results.rendered /\ params.duration >= 1) =>
        LET df == results.df
            net == results.net_power_usage
        IN /\ Len(df) = params.duration + 1
           /\ \A i \in 1..Len(df) :
                 /\ df[i].time = i - 1
                 /\ IsNumber(df[i].usage)
                 /\ Mul(df[i].usage, R(params.duration)) = Mul(net, R(i - 1))
                 /\ df[i].solar = Mul(params.solar_power, R(i - 1))
           /\ df[1] = [time |-> 0, usage |-> Zero, solar |-> Zero]
           /\ df[Len(df)].usage = net
           /\ df[Len(df)].solar = results.solar_contribution

C9_Witness ==
    /\ results.rendered
    /\ params.duration = 4
    /\ Len(results.df) = 5
    /\ results.net_power_usage # Zero
    /\ params.solar_power # Zero

\* C10: authentication_status becomes True only in a login run whose username
\* is a key of users and whose password is that user's stored password; while
\* it is True, username and user_data are in the session state; the device
\* list, the map locations and the results are touched only in runs in which
\* it is True.
C10_AuthenticationGate ==
    /\ [][(~authentication_status /\ authentication_status') =>
             /\ event'.kind = "login"
             /\ event'.name \in DOMAIN users
             /\ users[event'.name].password = event'.password
             /\ username' = event'.name]_vars
    /\ [](authentication_status =>
             /\ {"username", "user_data"} \subseteq keys
             /\ username \in DOMAIN users
             /\ user_data # NoUser)
    /\ [](results.rendered => authentication_status)
    /\ [][(\/ devices' # devices
           \/ start_location' # start_location
           \/ end_location' # end_location
           \/ keys' \cap SectionKeys # keys \cap SectionKeys) =>
             authentication_status']_vars

C10_Witness ==
    /\ authentication_status
    /\ event.kind = "login"
    /\ before # <<>>
    /\ results.rendered

====
